---- MODULE Spec2Model ----
(***************************************************************************)
(* Model of scripts/generate_apkbuild.py: the rosdep resolver (resolve)    *)
(* and the APKBUILD assembler (package_to_apkbuild) with the script's      *)
(* entry point.                                                            *)
(*                                                                         *)
(* Text is modelled by TLA+ strings, concatenated with \o.  A package or   *)
(* dependency name, the only text the code scans character by character    *)
(* (str.replace), is a sequence of segments: a segment is either the one   *)
(* character "_" or a run of characters without "_".                       *)
(***************************************************************************)
EXTENDS Integers, Sequences, FiniteSets, TLC

\* Bound: the number of list entries (urls and dependencies of all six
\* classes together) of the manifests explored.
MaxItems == 3

VARIABLES
    ros_distro,      \* args.ros_distro[0]
    package,         \* the parsed manifest (pkg) of args.package[0]
    check,           \* args.check
    call,            \* 1 during the first call with these arguments, 2 during the second
    pc,              \* position of the run
    ret,             \* package_to_apkbuild: the recipe lines emitted so far
    depends,         \* package_to_apkbuild: runtime dependency names
    depends_keys,    \* package_to_apkbuild: resolve(ros_distro, depends)
    makedepends,     \* package_to_apkbuild: build-time dependency names
    catkin,          \* package_to_apkbuild: toolchain flag
    cmake,           \* package_to_apkbuild: toolchain flag
    makedepends_keys,\* package_to_apkbuild: resolve(ros_distro, makedepends)
    resolve_calls,   \* the calls of resolve made so far, each with its final locals
    stdout,          \* what the run wrote to sys.stdout
    stderr,          \* the diagnostics the run wrote to sys.stderr, in order
    exit_code,       \* -1 while running, else the process exit status
    first            \* the outcome of the first call, once it has ended

vars == <<ros_distro, package, check, call, pc, ret, depends, depends_keys,
          makedepends, catkin, cmake, makedepends_keys, resolve_calls,
          stdout, stderr, exit_code, first>>

----------------------------------------------------------------------------
\* Text helpers

RECURSIVE Join(_, _)
\* sep.join(parts) for a list of strings
Join(sep, parts) ==
    IF Len(parts) = 0 THEN ""
    ELSE IF Len(parts) = 1 THEN parts[1]
    ELSE parts[1] \o sep \o Join(sep, Tail(parts))

\* The text of a name given by its segments
Text(name) == Join("", name)

\* Faulty variant: str.replace('_', '-', 1), only the first "_" is replaced
ReplaceFirst(name) ==
    [i \in DOMAIN name |->
        IF name[i] = "_" /\ (\A j \in 1..(i - 1) : name[j] # "_") THEN "-" ELSE name[i]]

\* str.replace('_', '-')
Replace(name) == [i \in DOMAIN name |-> IF name[i] = "_" THEN "-" ELSE name[i]]

ros_pkgname_to_pkgname(distro, pkgname) ==
    Join("-", <<"ros", distro, Text(Replace(pkgname))>>)

----------------------------------------------------------------------------
\* The rosdep rule source of the platform (rosdep2, an external library).
\* A name has no entry (view.lookup raises KeyError), an entry without a rule
\* for this platform (get_rule_for_platform raises ResolutionError), or an
\* entry whose rule for this platform is a list or a dict of packages.

Catkin      == <<"catkin">>
Cmake       == <<"cmake">>
AmentCmake  == <<"ament", "_", "cmake">>
CustomLib   == <<"some", "_", "custom", "_", "lib">>
Boost       == <<"boost">>
LibFoo      == <<"libfoo">>
PythonLib   == <<"python", "_", "lib">>

BuildtoolNames == {Catkin, Cmake, AmentCmake}
DependNames    == {CustomLib, Boost, LibFoo, PythonLib}

view_lookup(rosdep_name) ==
    CASE Text(rosdep_name) = "cmake" ->
            [found |-> TRUE, platform |-> TRUE, installer |-> "apk",
             dict |-> FALSE, packages |-> <<"cmake">>]
      [] Text(rosdep_name) = "boost" ->
            [found |-> TRUE, platform |-> TRUE, installer |-> "apk",
             dict |-> FALSE, packages |-> <<"boost-dev", "boost">>]
      [] Text(rosdep_name) = "libfoo" ->
            [found |-> TRUE, platform |-> FALSE, installer |-> "",
             dict |-> FALSE, packages |-> <<>>]
      [] Text(rosdep_name) = "python_lib" ->
            [found |-> TRUE, platform |-> TRUE, installer |-> "pip",
             dict |-> TRUE, packages |-> <<"pylib">>]
      [] OTHER ->
            [found |-> FALSE, platform |-> FALSE, installer |-> "",
             dict |-> FALSE, packages |-> <<>>]

\* installer.resolve(rule): the package identifiers of the rule, in its order.
\* The backends of rosdep2 read the packages of a list and of a dict rule
\* alike; the call is taken to return, never to raise.
installer_resolve(d) == d.packages

----------------------------------------------------------------------------
\* resolve(ros_distro, names)

\* One iteration of the for loop over names: st holds the locals keys and
\* not_provided, and invoked, the names whose rule was handed to a backend.
resolve_step(distro, st, rosdep_name) ==
    LET d == view_lookup(rosdep_name) IN
    IF ~d.found
    THEN [st EXCEPT !.keys = Append(@, ros_pkgname_to_pkgname(distro, rosdep_name))]
    ELSE IF ~d.platform
    THEN [st EXCEPT !.not_provided = Append(@, Text(rosdep_name))]
    ELSE [st EXCEPT
            !.not_provided = IF d.dict THEN Append(@, Text(rosdep_name)) ELSE @,
            !.invoked = Append(@, Text(rosdep_name)),
            !.keys = @ \o installer_resolve(d)]

RECURSIVE resolve_loop_break(_, _, _, _)
\* Faulty variant: the loop is left at the first name that is not provided
resolve_loop_break(distro, names, i, st) ==
    IF i > Len(names) \/ Len(st.not_provided) > 0 THEN st
    ELSE resolve_loop_break(distro, names, i + 1, resolve_step(distro, st, names[i]))

RECURSIVE resolve_loop(_, _, _, _)
\* for rosdep_name in names
resolve_loop(distro, names, i, st) ==
    IF i > Len(names) THEN st
    ELSE resolve_loop(distro, names, i + 1, resolve_step(distro, st, names[i]))

\* The call: the final locals, the diagnostic printed (if any) and the value
\* returned; none stands for Python's None.
resolve(distro, names) ==
    LET st == resolve_loop(distro, names, 1,
                           [keys |-> <<>>, not_provided |-> <<>>, invoked |-> <<>>])
        failed == Len(st.not_provided) > 0
    IN  [names        |-> names,
         keys         |-> st.keys,
         not_provided |-> st.not_provided,
         invoked      |-> st.invoked,
         diag         |-> IF failed
                          THEN <<"Some package is not provided by native installer: "
                                  \o Join(" ", st.not_provided)>>
                          ELSE <<>>,
         value        |-> IF failed THEN [none |-> TRUE, keys |-> <<>>]
                                    ELSE [none |-> FALSE, keys |-> st.keys]]

----------------------------------------------------------------------------
\* package_to_apkbuild(ros_distro, package_name, check)

\* Faulty variant: the list of lines outlives the call
stale_ret == ret

\* ret = []
fresh_ret == <<>>

install_space(distro) == Join("", <<"/usr/ros/", distro>>)
install_space_fakeroot(distro) == Join("", <<"\"$pkgdir\"", "/usr/ros/", distro>>)

\* The metadata lines, pkgname to options
header_lines(distro, pkg, chk) ==
    <<Join("", <<"pkgname=", ros_pkgname_to_pkgname(distro, pkg.name)>>),
      Join("", <<"pkgver=", pkg.version>>),
      Join("", <<"pkgrel=", "1">>),
      Join("", <<"pkgdesc=", "\"", Text(pkg.name), " package for ROS \"", distro>>),
      IF Len(pkg.urls) > 0
      THEN Join("", <<"url=", "\"", pkg.urls[1], "\"">>)
      ELSE Join("", <<"url=", "\"http://wiki.ros.org/", Text(pkg.name), "\"">>),
      Join("", <<"arch=", "\"all\"">>),
      Join("", <<"license=", "\"", pkg.licenses[1], "\"">>)>>
    \o (IF ~chk THEN <<Join("", <<"options=", "\"!check\"">>)>> ELSE <<>>)

\* for dep in ...: names.append(dep.name)
names_of(deps) == [i \in DOMAIN deps |-> deps[i]]

\* Faulty variant: the buildtool-export names come first
runtime_names_swapped(pkg) ==
    names_of(pkg.buildtool_export_depends) \o names_of(pkg.exec_depends)
        \o names_of(pkg.build_export_depends)

runtime_names(pkg) ==
    names_of(pkg.exec_depends) \o names_of(pkg.buildtool_export_depends)
        \o names_of(pkg.build_export_depends)

RECURSIVE scan_buildtools(_, _, _)
\* The loop over pkg.buildtool_depends: fl holds the flags catkin and cmake
scan_buildtools(deps, i, fl) ==
    IF i > Len(deps) THEN fl
    ELSE scan_buildtools(deps, i + 1,
            IF Text(deps[i]) = "catkin" THEN [fl EXCEPT !.catkin = TRUE]
            ELSE IF Text(deps[i]) = "cmake" THEN [fl EXCEPT !.cmake = TRUE]
            ELSE fl)

\* Faulty variant: the test forgets the list that names neither toolchain
unsupported_buildtool_both(ca, cm) == ca /\ cm

unsupported_buildtool(ca, cm) == (ca /\ cm) \/ ((~ca) /\ (~cm))

\* The names a diagnostic or resolve receives, as text
texts(names) == [i \in DOMAIN names |-> Text(names[i])]

depends_lines(dk, mk) ==
    <<Join("", <<"depends=", "\"", Join(" ", dk), "\"">>),
      Join("", <<"makedepends=", "\"", Join(" ", mk), "\"">>),
      Join("", <<"subpackages=", "\"\"">>),
      Join("", <<"source=", "\"\"">>),
      Join("", <<"builddir=", "\"$srcdir\"">>)>>

build_block(distro, pkg, ca, cm) ==
    <<"build() {",
      "  cd \"$builddir\"",
      "  mkdir -p src",
      Join(" ", <<"  rosinstall_generator", "--rosdistro", distro, "--flat",
                  Text(pkg.name), "|", "tee", "pkg.rosinstall">>),
      "  wstool init --shallow src pkg.rosinstall">>
    \o (IF ca
        THEN <<Join("", <<"  source /usr/ros/", distro, "/setup.sh">>),
               Join("", <<"  catkin_make_isolated">>)>>
        ELSE <<>>)
    \o (IF cm
        THEN <<Join("", <<"  mkdir src/", Text(pkg.name), "/build">>),
               Join("", <<"  cd src/", Text(pkg.name), "/build">>),
               Join("", <<"  cmake .. -DCMAKE_INSTALL_PREFIX=", install_space(distro),
                          " -DCMAKE_INSTALL_LIBDIR=lib">>),
               "  make">>
        ELSE <<>>)
    \o <<"}">>

\* Lines 167-177: the check block
check_lines(distro, pkg, ca, cm) ==
    <<"check() {",
      "  cd \"$builddir\"">>
    \o (IF ca
        THEN <<Join("", <<"  source /usr/ros/", distro, "/setup.sh">>),
               Join("", <<"  source devel_isolated/setup.sh">>),
               Join("", <<"  catkin_make_isolated --catkin-make-args run_tests">>),
               "  catkin_test_results">>
        ELSE <<>>)
    \o (IF cm
        THEN <<Join("", <<"  cd src/", Text(pkg.name), "/build">>),
               \* a TLA+ string cannot hold the backquote of the source
               \* line: it is written ' here
               "  [ 'make -q test > /dev/null 2> /dev/null; echo $?' -eq 1 ] && make test || true">>
        ELSE <<>>)
    \o <<"}">>

\* Faulty variant: the check block is emitted whatever the flag
check_block_always(distro, pkg, chk, ca, cm) == check_lines(distro, pkg, ca, cm)

\* if check
check_block(distro, pkg, chk, ca, cm) ==
    IF chk THEN check_lines(distro, pkg, ca, cm) ELSE <<>>

\* Lines 184-195: the catkin branch of the package block
package_catkin_lines(distro) ==
    <<Join("", <<"  source /usr/ros/", distro, "/setup.sh">>),
      Join(" ", <<"  catkin_make_isolated --install-space", install_space(distro)>>),
      Join(" ", <<"  catkin_make_isolated --install --install-space",
                  install_space(distro)>>),
      Join("", <<"  rm ",
                 install_space_fakeroot(distro), "/setup.* ",
                 install_space_fakeroot(distro), "/.rosinstall ",
                 install_space_fakeroot(distro), "/_setup_util.py ",
                 install_space_fakeroot(distro), "/env.sh ",
                 install_space_fakeroot(distro), "/.catkin">>)>>

\* Lines 197-198: the cmake branch of the package block
package_cmake_lines(pkg) ==
    <<Join("", <<"  cd src/", Text(pkg.name), "/build">>),
      "  make install">>

package_open ==
    <<"package() {",
      "  mkdir -p \"$pkgdir\"",
      "  cd \"$builddir\"",
      "  export DESTDIR=\"$pkgdir\"">>

\* Faulty variant: the cmake branch is gated by the catkin flag
package_block_misgated(distro, pkg, ca, cm) ==
    package_open
    \o (IF ca THEN package_catkin_lines(distro) ELSE <<>>)
    \o (IF ca THEN package_cmake_lines(pkg) ELSE <<>>)
    \o <<"}">>

package_block(distro, pkg, ca, cm) ==
    package_open
    \o (IF ca THEN package_catkin_lines(distro) ELSE <<>>)
    \o (IF cm THEN package_cmake_lines(pkg) ELSE <<>>)
    \o <<"}">>

----------------------------------------------------------------------------
\* The manifests explored

Lists(S, n) == [1..n -> S]

Manifest(urls, bt, ex, bte, be, bd, td) ==
    [name                     |-> <<"foo", "_", "lib">>,
     version                  |-> "1.2.3",
     urls                     |-> urls,
     licenses                 |-> <<"BSD">>,
     buildtool_depends        |-> bt,
     exec_depends             |-> ex,
     buildtool_export_depends |-> bte,
     build_export_depends     |-> be,
     build_depends            |-> bd,
     test_depends             |-> td]

NoOutcome == [exit_code |-> -1, stdout |-> <<>>, stderr |-> <<>>]
NoValue   == [none |-> TRUE, keys |-> <<>>]

Init ==
    /\ ros_distro = "melodic"
    /\ check \in BOOLEAN
    /\ \E nu \in 0..1 : \E nbt \in 0..(MaxItems - nu) :
       \E nex \in 0..(MaxItems - nu - nbt) :
       \E nbte \in 0..(MaxItems - nu - nbt - nex) :
       \E nbe \in 0..(MaxItems - nu - nbt - nex - nbte) :
       \E nbd \in 0..(MaxItems - nu - nbt - nex - nbte - nbe) :
       \E ntd \in 0..(MaxItems - nu - nbt - nex - nbte - nbe - nbd) :
       \E urls \in Lists({"http://example.org/foo_lib"}, nu) :
       \E bt \in Lists(BuildtoolNames, nbt) :
       \E ex \in Lists(DependNames, nex) :
       \E bte \in Lists(DependNames, nbte) :
       \E be \in Lists(DependNames, nbe) :
       \E bd \in Lists(DependNames, nbd) :
       \E td \in Lists(DependNames, ntd) :
          package = Manifest(urls, bt, ex, bte, be, bd, td)
    /\ call = 1
    /\ pc = "start"
    /\ ret = <<>>
    /\ depends = <<>>
    /\ depends_keys = NoValue
    /\ makedepends = <<>>
    /\ catkin = FALSE
    /\ cmake = FALSE
    /\ makedepends_keys = NoValue
    /\ resolve_calls = <<>>
    /\ stdout = <<>>
    /\ stderr = <<>>
    /\ exit_code = -1
    /\ first = NoOutcome

args == <<ros_distro, package, check>>

\* Lines 86-118: the metadata lines, then the runtime dependencies are
\* collected and resolved
Begin ==
    /\ pc = "start"
    /\ LET names == runtime_names(package)
           r == resolve(ros_distro, names)
       IN  /\ ret' = fresh_ret \o header_lines(ros_distro, package, check)
           /\ depends' = names
           /\ depends_keys' = r.value
           /\ resolve_calls' = Append(resolve_calls, r)
           /\ stderr' = stderr \o r.diag
    /\ makedepends' = <<>>
    /\ catkin' = FALSE
    /\ cmake' = FALSE
    /\ makedepends_keys' = NoValue
    /\ pc' = "toolchain"
    /\ UNCHANGED <<args, call, stdout, exit_code, first>>

\* Lines 120-131: the buildtool dependencies are collected and the toolchain
\* is selected; sys.exit(1) unless exactly one of catkin and cmake is named
Toolchain ==
    /\ pc = "toolchain"
    /\ LET names == names_of(package.buildtool_depends)
           fl == scan_buildtools(package.buildtool_depends, 1,
                                 [catkin |-> FALSE, cmake |-> FALSE])
       IN  /\ makedepends' = names
           /\ catkin' = fl.catkin
           /\ cmake' = fl.cmake
           /\ IF unsupported_buildtool(fl.catkin, fl.cmake)
              THEN /\ stderr' = Append(stderr,
                         "Un-supported buildtool " \o Join(" ", texts(names)))
                   /\ exit_code' = 1
                   /\ pc' = "exited"
              ELSE /\ pc' = "makedepends"
                   /\ UNCHANGED <<stderr, exit_code>>
    /\ UNCHANGED <<args, call, ret, depends, depends_keys, makedepends_keys,
                   resolve_calls, stdout, first>>

\* Lines 133-137: the build-time dependencies are completed and resolved
ResolveMakedepends ==
    /\ pc = "makedepends"
    /\ LET names == makedepends \o names_of(package.build_depends)
                                \o names_of(package.test_depends)
           r == resolve(ros_distro, names)
       IN  /\ makedepends' = names
           /\ makedepends_keys' = r.value
           /\ resolve_calls' = Append(resolve_calls, r)
           /\ stderr' = stderr \o r.diag
    /\ pc' = "keys"
    /\ UNCHANGED <<args, call, ret, depends, depends_keys, catkin, cmake,
                   stdout, exit_code, first>>

\* Faulty variant: only the runtime result is tested
resolution_failed_runtime(dk, mk) == dk.none

\* Faulty variant: only the build-time result is tested
resolution_failed_buildtime(dk, mk) == mk.none

\* if depends_keys == None or makedepends_keys == None
resolution_failed(dk, mk) == dk.none \/ mk.none

\* Lines 139-199: sys.exit(1) when a resolution failed, else the rest of the
\* recipe is emitted
Render ==
    /\ pc = "keys"
    /\ IF resolution_failed(depends_keys, makedepends_keys)
       THEN /\ exit_code' = 1
            /\ pc' = "exited"
            /\ UNCHANGED ret
       ELSE /\ ret' = ret \o depends_lines(depends_keys.keys, makedepends_keys.keys)
                          \o build_block(ros_distro, package, catkin, cmake)
                          \o check_block(ros_distro, package, check, catkin, cmake)
                          \o package_block(ros_distro, package, catkin, cmake)
            /\ pc' = "returned"
            /\ UNCHANGED exit_code
    /\ UNCHANGED <<args, call, depends, depends_keys, makedepends, catkin, cmake,
                   makedepends_keys, resolve_calls, stdout, stderr, first>>

\* Lines 201 and 217: the lines are joined, returned and printed
Main ==
    /\ pc = "returned"
    /\ stdout' = Append(stdout, Join("\n", ret) \o "\n")
    /\ exit_code' = 0
    /\ pc' = "printed"
    /\ UNCHANGED <<args, call, ret, depends, depends_keys, makedepends, catkin,
                   cmake, makedepends_keys, resolve_calls, stderr, first>>

outcome == [exit_code |-> exit_code, stdout |-> stdout, stderr |-> stderr]

ended == pc \in {"printed", "exited"}

\* The same arguments are given a second time; the first outcome is kept for
\* comparison
Again ==
    /\ ended
    /\ call = 1
    /\ first' = outcome
    /\ call' = 2
    /\ pc' = "start"
    /\ stdout' = <<>>
    /\ stderr' = <<>>
    /\ exit_code' = -1
    /\ resolve_calls' = <<>>
    /\ UNCHANGED <<args, ret, depends, depends_keys, makedepends, catkin, cmake,
                   makedepends_keys>>

Next ==
    \/ Begin
    \/ Toolchain
    \/ ResolveMakedepends
    \/ Render
    \/ Main
    \/ Again

Spec == Init /\ [][Next]_vars

----------------------------------------------------------------------------
\* Properties

\* What the manifest says, independently of the run
Named(deps, text) == \E i \in DOMAIN deps : Text(deps[i]) = text
NamesCatkin == Named(package.buildtool_depends, "catkin")
NamesCmake  == Named(package.buildtool_depends, "cmake")
OneToolchain == NamesCatkin # NamesCmake

\* The toolchain check of this call has been made
ToolchainChecked == pc \in {"makedepends", "keys", "returned", "printed", "exited"}

UnsupportedDiag ==
    "Un-supported buildtool " \o Join(" ", texts(package.buildtool_depends))

InStderr(line) == \E i \in DOMAIN stderr : stderr[i] = line

\* C1: once the toolchain check has been made, a buildtool list that names
\* neither or both of catkin and cmake has ended the run with the diagnostic
\* 'Un-supported buildtool ...' and exit status 1; a list that names exactly
\* one of them has selected that toolchain, and no such diagnostic was printed.
C1_ToolchainExclusivity ==
    ToolchainChecked =>
        IF ~OneToolchain
        THEN /\ pc = "exited"
             /\ exit_code = 1
             /\ stderr[Len(stderr)] = UnsupportedDiag
             /\ stdout = <<>>
        ELSE /\ catkin = NamesCatkin
             /\ cmake = NamesCmake
             /\ catkin # cmake
             /\ ~InStderr(UnsupportedDiag)

C1_Witness ==
    /\ pc = "exited"
    /\ NamesCatkin
    /\ NamesCmake
    /\ stderr[Len(stderr)] = "Un-supported buildtool catkin cmake"

SomeResolveFailed == \E i \in DOMAIN resolve_calls : resolve_calls[i].value.none

\* C2: a run in which a resolve call returned None, or whose toolchain check
\* found neither or both toolchains, writes nothing to standard output and
\* ends with exit status 1; standard output is written only after two
\* successful resolutions with exactly one toolchain, and then exactly once.
C2_AllOrNothing ==
    /\ SomeResolveFailed => (stdout = <<>> /\ (ended => exit_code = 1))
    /\ (ToolchainChecked /\ ~OneToolchain) => (stdout = <<>> /\ exit_code = 1)
    /\ exit_code = 1 => stdout = <<>>
    /\ stdout # <<>> =>
          /\ pc = "printed"
          /\ Len(stdout) = 1
          /\ Len(resolve_calls) = 2
          /\ ~SomeResolveFailed
          /\ OneToolchain
          /\ exit_code = 0

C2_Witness ==
    /\ pc = "exited"
    /\ OneToolchain
    /\ ~depends_keys.none
    /\ makedepends_keys.none
    /\ Len(resolve_calls) = 2
    /\ stdout = <<>>
    /\ exit_code = 1

\* The runtime resolution of this call was made and failed
RuntimeFailed == pc # "start" /\ depends_keys.none

\* C10 as stated: a failed runtime resolution ends the run at that step, so
\* the build-time list is never resolved after it and no second diagnostic
\* follows the one resolve printed.
C10_FailsAtStep ==
    RuntimeFailed =>
        /\ pc \notin {"makedepends", "keys"}
        /\ Len(resolve_calls) = 1
        /\ Len(stderr) = 1

\* C10 amended: a failed runtime resolution prints its diagnostic first and
\* makes the run fail, but only later: the toolchain check is still made,
\* and the run ends either there (with the buildtool diagnostic) or, after
\* the build-time list has been resolved too, at the test of both results;
\* it never emits a recipe.
C10_FailsLater ==
    RuntimeFailed =>
        /\ Len(stderr) >= 1
        /\ stderr[1] = resolve_calls[1].diag[1]
        /\ pc \notin {"returned", "printed"}
        /\ stdout = <<>>
        /\ pc = "exited" =>
              /\ exit_code = 1
              /\ \/ ~OneToolchain /\ stderr[Len(stderr)] = UnsupportedDiag
                                  /\ Len(resolve_calls) = 1
                 \/ OneToolchain /\ Len(resolve_calls) = 2

C10_Witness ==
    /\ pc = "exited"
    /\ depends_keys.none
    /\ makedepends_keys.none
    /\ Len(resolve_calls) = 2
    /\ Len(stderr) = 2

----------------------------------------------------------------------------
\* Properties of resolve, stated of every call of it the run has made

\* What the rule source says of a name
Unknown(name)    == ~view_lookup(name).found
Mismatched(name) == view_lookup(name).found /\ ~view_lookup(name).platform
Compound(name)   == view_lookup(name).found /\ view_lookup(name).platform
                        /\ view_lookup(name).dict
Simple(name)     == view_lookup(name).found /\ view_lookup(name).platform
                        /\ ~view_lookup(name).dict

Occurs(seq, x) == \E i \in DOMAIN seq : seq[i] = x
Count(seq, x)  == Cardinality({i \in DOMAIN seq : seq[i] = x})

MismatchedText(t) == \E n \in DependNames \cup BuildtoolNames : Text(n) = t /\ Mismatched(n)

HasMismatch(c) == \E i \in DOMAIN c.names : Mismatched(c.names[i])

\* Every name of the call was handled: its fallback identifier was added,
\* it was recorded as not provided, or its rule was handed to a backend
Processed(c, i) ==
    LET n == c.names[i] IN
    \/ Unknown(n) /\ Count(c.keys, ros_pkgname_to_pkgname(ros_distro, n)) = Count(c.names, n)
    \/ Mismatched(n) /\ Count(c.not_provided, Text(n)) = Count(c.names, n)
    \/ ~Unknown(n) /\ ~Mismatched(n) /\ Count(c.invoked, Text(n)) = Count(c.names, n)

\* C3: a resolve call whose names include a platform-mismatched one handles
\* every name of the list, returns None with no list, and prints exactly
\* one diagnostic, which names every mismatched name of the input, as often
\* and in the order it occurs there.
C3_ResolveAllOrNothing ==
    \A k \in DOMAIN resolve_calls :
        LET c == resolve_calls[k] IN
        HasMismatch(c) =>
            /\ \A i \in DOMAIN c.names : Processed(c, i)
            /\ c.value.none
            /\ c.value.keys = <<>>
            /\ Len(c.diag) = 1
            /\ c.diag[1] = "Some package is not provided by native installer: "
                               \o Join(" ", c.not_provided)
            /\ InStderr(c.diag[1])
            /\ SelectSeq(c.not_provided, MismatchedText)
                   = SelectSeq(texts(c.names), MismatchedText)

C3_Witness ==
    \E k \in DOMAIN resolve_calls :
        LET c == resolve_calls[k] IN
        /\ Len(c.names) = 3
        /\ Mismatched(c.names[1])
        /\ Unknown(c.names[2])
        /\ Mismatched(c.names[3])
        /\ c.value.none
        /\ c.diag = <<"Some package is not provided by native installer: libfoo libfoo">>

RECURSIVE Dashed(_)
\* The text of a name with "-" for every "_"
Dashed(name) ==
    IF name = <<>> THEN ""
    ELSE (IF Head(name) = "_" THEN "-" ELSE Head(name)) \o Dashed(Tail(name))

Fallback(name) == "ros-" \o ros_distro \o "-" \o Dashed(name)

\* C4: in every resolve call, a name without an entry in the rule source is
\* never recorded as not provided and adds exactly one identifier per
\* occurrence to keys, 'ros-<distro>-<name with - for every _>'; a run whose
\* only runtime dependency is some_custom_lib and that prints a recipe
\* prints the line depends="ros-melodic-some-custom-lib".
C4_UnknownFallback ==
    /\ \A k \in DOMAIN resolve_calls :
          LET c == resolve_calls[k] IN
          \A i \in DOMAIN c.names :
              Unknown(c.names[i]) =>
                  /\ ~Occurs(c.not_provided, Text(c.names[i]))
                  /\ ~Occurs(c.invoked, Text(c.names[i]))
                  /\ Count(c.keys, Fallback(c.names[i])) = Count(c.names, c.names[i])
                  /\ Len(c.keys) >= Len(SelectSeq(c.names, Unknown))
    /\ (pc = "printed" /\ ros_distro = "melodic"
            /\ runtime_names(package) = <<CustomLib>>)
          => Occurs(ret, "depends=\"ros-melodic-some-custom-lib\"")

C4_Witness ==
    /\ pc = "printed"
    /\ package.exec_depends = <<CustomLib>>
    /\ runtime_names(package) = <<CustomLib>>
    /\ resolve_calls[1].keys = <<"ros-melodic-some-custom-lib">>

\* C9 as stated: in every resolve call, a name whose rule for the platform
\* is a dict is recorded as not provided, its rule is not handed to a
\* backend, and no identifier of the rule is added to keys.
C9_CompoundNotInvoked ==
    \A k \in DOMAIN resolve_calls :
        LET c == resolve_calls[k] IN
        \A i \in DOMAIN c.names :
            Compound(c.names[i]) =>
                /\ Occurs(c.not_provided, Text(c.names[i]))
                /\ ~Occurs(c.invoked, Text(c.names[i]))
                /\ \A j \in DOMAIN view_lookup(c.names[i]).packages :
                       ~Occurs(c.keys, view_lookup(c.names[i]).packages[j])

----------------------------------------------------------------------------
\* Properties of the recipe

\* The recipe was printed: standard output holds the lines of ret, each
\* ended by a newline
Printed == pc = "printed" /\ stdout = <<Join("\n", ret) \o "\n">>

\* The identifiers one name stands for on a successful resolution
PerName(name) ==
    IF Unknown(name) THEN <<Fallback(name)>> ELSE view_lookup(name).packages

RECURSIVE Identifiers(_)
\* The identifiers of a list of names, name by name
Identifiers(names) ==
    IF names = <<>> THEN <<>>
    ELSE PerName(Head(names)) \o Identifiers(Tail(names))

RECURSIVE Spaced(_)
\* Identifiers separated by single spaces
Spaced(ids) ==
    IF ids = <<>> THEN ""
    ELSE IF Len(ids) = 1 THEN ids[1]
    ELSE Head(ids) \o " " \o Spaced(Tail(ids))

DependsLine ==
    "depends=\"" \o Spaced(Identifiers(package.exec_depends)
                           \o Identifiers(package.buildtool_export_depends)
                           \o Identifiers(package.build_export_depends)) \o "\""

MakedependsLine ==
    "makedepends=\"" \o Spaced(Identifiers(package.buildtool_depends)
                               \o Identifiers(package.build_depends)
                               \o Identifiers(package.test_depends)) \o "\""

\* C5: in a printed recipe the depends line lists the identifiers of the
\* exec, buildtool-export and build-export dependencies, and the makedepends
\* line, which follows it, those of the buildtool, build and test
\* dependencies: class after class, name after name in manifest order, the
\* identifiers of one name in the order of its rule, repetitions kept.
C5_OrderPreserved ==
    pc = "printed" =>
        /\ Printed
        /\ Count(ret, DependsLine) = 1
        /\ Count(ret, MakedependsLine) = 1
        /\ \E i \in DOMAIN ret :
              /\ i < Len(ret)
              /\ ret[i] = DependsLine
              /\ ret[i + 1] = MakedependsLine

C5_Witness ==
    /\ pc = "printed"
    /\ package.buildtool_depends = <<Cmake>>
    /\ package.exec_depends = <<Boost>>
    /\ package.buildtool_export_depends = <<CustomLib>>
    /\ Occurs(ret, "depends=\"boost-dev boost ros-melodic-some-custom-lib\"")
    /\ Occurs(ret, "makedepends=\"cmake\"")

\* The lines only the catkin branches emit, and those only the cmake
\* branches emit
CatkinLines ==
    {"  source /usr/ros/" \o ros_distro \o "/setup.sh",
     "  catkin_make_isolated",
     "  source devel_isolated/setup.sh",
     "  catkin_make_isolated --catkin-make-args run_tests",
     "  catkin_test_results",
     "  catkin_make_isolated --install-space /usr/ros/" \o ros_distro,
     "  catkin_make_isolated --install --install-space /usr/ros/" \o ros_distro,
     "  rm \"$pkgdir\"/usr/ros/" \o ros_distro \o "/setup.* "
        \o "\"$pkgdir\"/usr/ros/" \o ros_distro \o "/.rosinstall "
        \o "\"$pkgdir\"/usr/ros/" \o ros_distro \o "/_setup_util.py "
        \o "\"$pkgdir\"/usr/ros/" \o ros_distro \o "/env.sh "
        \o "\"$pkgdir\"/usr/ros/" \o ros_distro \o "/.catkin"}

CdBuild == "  cd src/" \o Text(package.name) \o "/build"

CmakeLines ==
    {"  mkdir src/" \o Text(package.name) \o "/build",
     CdBuild,
     "  cmake .. -DCMAKE_INSTALL_PREFIX=/usr/ros/" \o ros_distro
        \o " -DCMAKE_INSTALL_LIBDIR=lib",
     "  make",
     "  [ 'make -q test > /dev/null 2> /dev/null; echo $?' -eq 1 ] && make test || true",
     "  make install"}

\* The line numbers of a block of the recipe: from its opening line to the
\* first "}" after it
Opens(line) == CHOOSE i \in DOMAIN ret : ret[i] = line
Closes(line) ==
    CHOOSE j \in DOMAIN ret :
        /\ j > Opens(line)
        /\ ret[j] = "}"
        /\ \A m \in (Opens(line) + 1)..(j - 1) : ret[m] # "}"
InBlock(line, x) ==
    /\ Occurs(ret, line)
    /\ \E i \in (Opens(line) + 1)..(Closes(line) - 1) : ret[i] = x

\* C6: a printed recipe holds the lines of the one toolchain the manifest
\* names in its build, check (if there is one) and package blocks, and no
\* line of the other toolchain anywhere; for cmake the package block holds
\* 'cd src/<name>/build' with 'make install' right after it.
C6_BranchSelection ==
    pc = "printed" =>
        /\ Printed
        /\ Count(ret, "build() {") = 1
        /\ Count(ret, "package() {") = 1
        /\ NamesCmake =>
              /\ ~NamesCatkin
              /\ \A i \in DOMAIN ret : ret[i] \notin CatkinLines
              /\ InBlock("build() {", "  make")
              /\ check => InBlock("check() {", CdBuild)
              /\ \E i \in (Opens("package() {") + 1)..(Closes("package() {") - 2) :
                    /\ ret[i] = CdBuild
                    /\ ret[i + 1] = "  make install"
        /\ NamesCatkin =>
              /\ ~NamesCmake
              /\ \A i \in DOMAIN ret : ret[i] \notin CmakeLines
              /\ InBlock("build() {", "  catkin_make_isolated")
              /\ check => InBlock("check() {",
                                  "  catkin_make_isolated --catkin-make-args run_tests")
              /\ InBlock("package() {",
                         "  catkin_make_isolated --install --install-space /usr/ros/"
                             \o ros_distro)

C6_Witness ==
    /\ pc = "printed"
    /\ NamesCmake
    /\ check
    /\ \E i \in DOMAIN ret :
          /\ i < Len(ret)
          /\ ret[i] = "  cd src/foo_lib/build"
          /\ ret[i + 1] = "  make install"

\* C7: a recipe printed with check false has no 'check() {' line and has
\* the line options="!check"; one printed with check true has no options
\* line and has its check block after the end of the build block and
\* before the package block.
C7_DisabledChecks ==
    pc = "printed" =>
        /\ Printed
        /\ ~check =>
              /\ ~Occurs(ret, "check() {")
              /\ Count(ret, "options=\"!check\"") = 1
        /\ check =>
              /\ ~Occurs(ret, "options=\"!check\"")
              /\ Count(ret, "check() {") = 1
              /\ Opens("check() {") = Closes("build() {") + 1
              /\ Opens("package() {") = Closes("check() {") + 1

C7_Witness ==
    /\ pc = "printed"
    /\ ~check
    /\ NamesCatkin
    /\ Occurs(ret, "options=\"!check\"")

\* C8: the second call with the same arguments ends as the first did: the
\* same exit status, the same text on standard output and the same
\* diagnostics.
C8_Deterministic ==
    (call = 2 /\ ended) => outcome = first

C8_Witness ==
    /\ call = 2
    /\ pc = "printed"
    /\ first.exit_code = 0
    /\ first.stdout # <<>>

====
